---- MODULE Spec2Model ----
(***************************************************************************)
(* Model of the Skribblio bot (src/bot.js): the clue resolver              *)
(* (Player.findSolutions), the round wait (Player.waitForRoundFinished),   *)
(* the spectator Game.run loop, the two WordBank sinks, the two bootstraps *)
(* and the self-play Game.run loop.                                        *)
(*                                                                         *)
(* Strings are sequences of one-character strings, so "cat" is             *)
(* <<"c","a","t">> and the empty string is <<>>.                           *)
(***************************************************************************)
EXTENDS Integers, Sequences, FiniteSets, Bags, TLC

VARIABLES
    sortedWords,    \* the dictionary index imported from words.json
    target,         \* resolver runs: the entry whose clue is being revealed
    clue,           \* resolver runs: the clue last handed to findSolutions
    solutions,      \* resolver runs: what findSolutions returned for it
    page,           \* Player.#page: what the game's page can show in this run
    gpc,            \* spectator Game.run: where the run loop stands
    stack,          \* the active calls of waitForRoundFinished, innermost last
    oldWord,        \* Player.#oldWord
    playerCount,    \* Player.#playerCount
    correctGuesses, \* Player.#correctGuesses
    batches,        \* bag of the detached submission promises still running
    words,          \* WordBank.#words, scored mode
    rounds,         \* rounds joined so far
    batchCount,     \* history: batches started since Game.run began the round
    lastTick,       \* history: whether the last tick called findSolutions, and on what
    calls,          \* history: bag of the addWord calls made so far
    sinkAtStart,    \* history: `words` when Game.run began the round
    callsAtStart,   \* history: `calls` when Game.run began the round
    wordFile,       \* the content of words_picked.json the WordBank was built from
    sess,           \* concurrent spectator sessions: each Game.run and its Player
    wordsSimple,    \* WordBank.#words, simple mode (the self-play bot)
    simpleCalls,    \* history: bag of the words passed to the simple addWord
    variant,        \* which of the two programs of bot.js the process runs
    boot,           \* the bootstrap function: where it stands and on which game
    games,          \* per session index: the Game's run promise and its pages
    orphans,        \* self-play: runs of replaced games still going on closed pages
    unhandled,      \* bag of the promise rejections nothing handles, by origin
    failures,       \* errors the page driver has raised so far
    turn,           \* self-play Game.#turn
    opponant,       \* self-play Game.run: let opponant
    round,          \* self-play Game.#round
    spc,            \* self-play Game.run: where the run loop stands
    result,         \* self-play Game.run: const result = [choice, words given]
    oldWords,       \* self-play Player.#oldWords of both players
    turns,          \* history: turns completed so far
    matches,        \* history: `turns` at every startGame
    turnLog,        \* history: what the turn in progress was offered and recorded
    roundLog,       \* history: the last clue and the last guessed count read in the round
    disk,           \* the word file as the last completed write left it
    writes,         \* the writeFile calls in flight: the text each one writes
    saveErrors      \* errors the callback of writeFile has logged

resolverVars == <<target, clue, solutions>>

playerVars == <<oldWord, playerCount, correctGuesses>>

roundVars == <<page, gpc, stack, oldWord, playerCount, correctGuesses, batches, rounds,
               batchCount, lastTick, sinkAtStart, callsAtStart, roundLog>>

sinkVars == <<words, calls>>

bankVars == <<wordFile, sess, wordsSimple, simpleCalls>>

bootVars == <<variant, boot, games, orphans, unhandled, failures>>

selfVars == <<turn, opponant, round, spc, result, oldWords, turns, matches, turnLog>>

saveVars == <<disk, writes, saveErrors>>

vars == <<sortedWords, target, clue, solutions, page, gpc, stack, oldWord, playerCount,
          correctGuesses, batches, words, rounds, batchCount, lastTick, calls,
          sinkAtStart, callsAtStart, wordFile, sess, wordsSimple, simpleCalls,
          variant, boot, games, orphans, unhandled, failures,
          turn, opponant, round, spc, result, oldWords, turns, matches, turnLog,
          roundLog, disk, writes, saveErrors>>

----------------------------------------------------------------------------
(* Bounds *)

MaxClueLen == 3         \* longest clue enumerated character by character

----------------------------------------------------------------------------
(* Characters and strings *)

PLACEHOLDER == "_"

Separators == {" ", "-"}

ClueAlphabet == {"_", " ", "-", "c", "a", "t", "C"}

toLowerCase(ch) ==
    CASE ch = "C" -> "c"
      [] ch = "I" -> "i"
      [] OTHER -> ch

\* String.prototype.charAt with a zero-based index: '' when out of range.
charAt(s, i) == IF i + 1 \in 1..Len(s) THEN <<s[i + 1]>> ELSE <<>>

\* String.prototype.substring(1)
substring1(s) == IF s = <<>> THEN <<>> ELSE Tail(s)

RECURSIVE SplitAcc(_, _, _, _)
SplitAcc(s, seps, cur, acc) ==
    IF s = <<>> THEN Append(acc, cur)
    ELSE IF Head(s) \in seps
         THEN SplitAcc(Tail(s), seps, <<>>, Append(acc, cur))
         ELSE SplitAcc(Tail(s), seps, Append(cur, Head(s)), acc)

\* String.prototype.split on a set of one-character separators.
split(s, seps) == SplitAcc(s, seps, <<>>, <<>>)

\* clue.replaceAll(' ', '').replaceAll('-', '')
replaceAllSeparators(s) == SelectSeq(s, LAMBDA ch : ch \notin Separators)

MapLen(tokens) == [i \in DOMAIN tokens |-> Len(tokens[i])]

----------------------------------------------------------------------------
(* The dictionary index (words.json).  The file is a precomputed asset;    *)
(* its layout is the one findSolutions reads: sortedWords[wordCount]       *)
(* [letterCount] is an ordered list of {word, lens, letters}.              *)

WordEntry(w) ==
    [word    |-> w,
     lens    |-> MapLen(split(w, Separators)),
     letters |-> [i \in DOMAIN replaceAllSeparators(w) |->
                     toLowerCase(replaceAllSeparators(w)[i])]]

BucketKey(e) == <<Len(e.lens), Len(e.letters)>>

build(corpus) ==
    LET entries == [i \in DOMAIN corpus |-> WordEntry(corpus[i])]
        keys    == {BucketKey(entries[i]) : i \in DOMAIN entries}
    IN  [k \in keys |-> SelectSeq(entries, LAMBDA e : BucketKey(e) = k)]

CorpusExample == << <<"c","a","t">>, <<"c","a","r">>, <<"d","o","g">> >>

CorpusShapes ==
    << <<"C","a","t">>, <<"c","a","b">>, <<"c"," ","a","t">>,
       <<"c","a"," ","t">>, <<"a","-","c">>, <<"a","t">> >>

CorpusLong ==
    << <<"i","c","e"," ","c","r","e","a","m">>,
       <<"i","c","e","d"," ","c","a","r","e">>,
       <<"i","c","e","c","r","e","a","m">> >>

CorpusRound ==
    << <<"c","a","t">>, <<"c","a","r">>, <<"c","a","b">>, <<"c","o","p">>,
       <<"c","a","p">>, <<"c","o","w">>, <<"c","u","p">>, <<"d","o","g">> >>

Corpora == {CorpusExample, CorpusShapes, CorpusLong, CorpusRound}

AllEntries(index) ==
    UNION {{index[k][i] : i \in DOMAIN index[k]} : k \in DOMAIN index}

----------------------------------------------------------------------------
(* Player.findSolutions *)

\* the shape filter comparing the number of sub-words only
lensCountOnly(guess, lens) == Len(guess.lens) <= Len(lens)

\* guess.lens.every((e, i) => e === lens[i])
lensEvery(guess, lens) ==
    \A i \in DOMAIN guess.lens : i \in DOMAIN lens /\ guess.lens[i] = lens[i]

\* the inner loop with the position counter left behind
RECURSIVE skipPlaceholdersNoCount(_, _)
skipPlaceholdersNoCount(c, letterPos) ==
    IF charAt(c, 0) = <<PLACEHOLDER>>
    THEN skipPlaceholdersNoCount(substring1(c), letterPos)
    ELSE <<c, letterPos>>

\* the inner loop: while (clue.charAt(0) === '_') { clue = clue.substring(1); letterPos++; }
RECURSIVE skipPlaceholders(_, _)
skipPlaceholders(c, letterPos) ==
    IF charAt(c, 0) = <<PLACEHOLDER>>
    THEN skipPlaceholders(substring1(c), letterPos + 1)
    ELSE <<c, letterPos>>

\* the outer loop: while (clue.length !== 0) { ... }
RECURSIVE filterLetters(_, _, _)
filterLetters(c, letterPos, guesses) ==
    IF Len(c) = 0 THEN guesses
    ELSE LET skipped == skipPlaceholders(c, letterPos)
             c1      == skipped[1]
             pos     == skipped[2]
             letter  == charAt(c1, 0)
             kept    == IF letter # <<>>
                        THEN SelectSeq(guesses,
                                 LAMBDA guess : charAt(guess.letters, pos) = letter)
                        ELSE guesses
         IN  filterLetters(substring1(c1), pos + 1, kept)

\* const numWords = clue.split(' ').length
numWords(c) == Len(split(c, {" "}))

findSolutions(index, c) ==
    LET lens     == MapLen(split(c, Separators))
        flat     == replaceAllSeparators(c)
    IN  IF <<numWords(c), Len(flat)>> \in DOMAIN index
        THEN LET bucket == index[<<numWords(c), Len(flat)>>]
                 shaped == SelectSeq(bucket, LAMBDA guess : lensEvery(guess, lens))
             IN  filterLetters(flat, 0, shaped)
        ELSE <<>>

----------------------------------------------------------------------------
(* Resolver runs: the index and the clues are the inputs. *)

NoTarget == [word |-> <<>>, lens |-> <<>>, letters |-> <<>>]

Clues == UNION {[1..n -> ClueAlphabet] : n \in 0..MaxClueLen}

\* the hint row of a word none of whose letters is revealed yet
Mask(w) == [i \in DOMAIN w |-> IF w[i] \in Separators THEN w[i] ELSE PLACEHOLDER]

\* nothing read yet in the round
NoLog == [polled |-> FALSE, clue |-> <<>>, observed |-> FALSE, guessed |-> 0]

\* no bootstrap has run: no Game exists
NoBoot ==
    /\ variant = "none"
    /\ boot = [pc |-> "off", i |-> 0]
    /\ games = <<>>
    /\ orphans = 0
    /\ unhandled = EmptyBag
    /\ failures = 0
    /\ disk = <<>>
    /\ writes = <<>>
    /\ saveErrors = 0

\* no self-play Game is running
NoSelfPlay ==
    /\ turn = "none"
    /\ opponant = "none"
    /\ round = 0
    /\ spc = "off"
    /\ result = <<>>
    /\ oldWords = <<>>
    /\ turns = 0
    /\ matches = <<>>
    /\ turnLog = <<>>

\* no session is running: a freshly constructed Player and WordBank
NoSession ==
    /\ NoBoot
    /\ NoSelfPlay
    /\ page = [clues |-> {}, deadline |-> 0]
    /\ gpc = "off"
    /\ stack = <<>>
    /\ oldWord = <<>>
    /\ playerCount = 0
    /\ correctGuesses = 0
    /\ batches = EmptyBag
    /\ words = <<>>
    /\ rounds = 0
    /\ batchCount = 0
    /\ roundLog = NoLog
    /\ lastTick = [consulted |-> FALSE, clue |-> <<>>]
    /\ calls = EmptyBag
    /\ sinkAtStart = <<>>
    /\ callsAtStart = EmptyBag
    /\ wordFile = <<>>
    /\ sess = <<>>
    /\ wordsSimple = <<>>
    /\ simpleCalls = EmptyBag

InitResolve ==
    /\ sortedWords \in {build(corpus) : corpus \in Corpora}
    /\ target = NoTarget
    /\ clue = <<>>
    /\ solutions = findSolutions(sortedWords, <<>>)
    /\ NoSession

\* findSolutions applied to any clue text the page may hold, on a fresh
\* resolver run (no clue seen yet: let clue = '')
ResolveClue ==
    \E c \in Clues :
        /\ clue = <<>>
        /\ target' = NoTarget
        /\ clue' = c
        /\ solutions' = findSolutions(sortedWords, c)
        /\ UNCHANGED <<sortedWords, saveVars, bootVars, selfVars, roundVars, sinkVars, bankVars>>

\* a round starts on some word of the index: every letter is hidden
ShowHint ==
    \E e \in AllEntries(sortedWords) :
        /\ target' = e
        /\ clue' = Mask(e.word)
        /\ solutions' = findSolutions(sortedWords, Mask(e.word))
        /\ UNCHANGED <<sortedWords, saveVars, bootVars, selfVars, roundVars, sinkVars, bankVars>>

\* the game reveals one more letter of the word, as the word spells it
RevealLetter ==
    /\ target # NoTarget
    /\ \E p \in DOMAIN clue :
        /\ clue[p] = PLACEHOLDER
        /\ clue' = [clue EXCEPT ![p] = target.word[p]]
        /\ solutions' = findSolutions(sortedWords, [clue EXCEPT ![p] = target.word[p]])
        /\ UNCHANGED <<sortedWords, saveVars, bootVars, selfVars, target, roundVars, sinkVars, bankVars>>

NextResolve == ResolveClue \/ ShowHint \/ RevealLetter

SpecResolve == InitResolve /\ [][NextResolve]_vars

----------------------------------------------------------------------------
(* Claims about the resolver *)

InSeq(x, s) == \E i \in DOMAIN s : s[i] = x

IsReveal == /\ target # NoTarget
            /\ target' = target
            /\ Len(clue') = Len(clue)
            /\ \E p \in DOMAIN clue :
                   /\ clue[p] = PLACEHOLDER
                   /\ clue' = [clue EXCEPT ![p] = target.word[p]]

\* C3: revealing one more true letter of the target never yields more
\* candidates than before and never drops the target from the candidates.
C3_MonotonicShrink ==
    [][IsReveal =>
          /\ Len(solutions') <= Len(solutions)
          /\ (InSeq(target, solutions) => InSeq(target, solutions'))]_vars

\* C3, the part the code keeps: the candidate count never grows.
C3_NeverGrows ==
    [][IsReveal => Len(solutions') <= Len(solutions)]_vars

----------------------------------------------------------------------------
WordsOf(entries) == [i \in DOMAIN entries |-> entries[i].word]

TokenLens(c) == MapLen(split(c, Separators))

LettersAgree(e, flat) ==
    \A p \in DOMAIN flat :
        flat[p] # PLACEHOLDER => (p \in DOMAIN e.letters /\ e.letters[p] = flat[p])

\* the bucket findSolutions looks the clue up in, reduced to the entries of
\* the clue's shape
ShapeBucket(index, c) ==
    LET k == <<Len(split(c, {" "})), Len(replaceAllSeparators(c))>>
    IN  IF k \in DOMAIN index
        THEN SelectSeq(index[k], LAMBDA e : lensEvery(e, TokenLens(c)))
        ELSE <<>>

NoLetterRevealed(c) == \A p \in DOMAIN c : c[p] \in Separators \cup {PLACEHOLDER}

MultiWordClue(c) ==
    /\ Len(split(c, Separators)) > 1
    /\ \A i \in DOMAIN split(c, Separators) : Len(split(c, Separators)[i]) > 0

\* C5: for a clue of more than one sub-word every returned candidate has
\* the clue's per-sub-word lengths, position by position.
C5_PositionalLengths ==
    MultiWordClue(clue) =>
        \A i \in DOMAIN solutions : solutions[i].lens = TokenLens(clue)

C5_Witness ==
    /\ TokenLens(clue) = <<3, 5>>
    /\ Len(sortedWords[<<2, 8>>]) = 2
    /\ WordsOf(solutions) = << <<"i","c","e"," ","c","r","e","a","m">> >>

----------------------------------------------------------------------------
(* WordBank, scored mode (the spectator bot) *)

NoRecord == [appearance |-> 0, playersEncounterd |-> 0, correctGusses |-> 0]

\* addWord that replaces the record instead of adding to it
addWordOverwrite(bank, word, numplayers, correctGusses) ==
    IF numplayers < 1 \/ correctGusses < 0 \/ numplayers < correctGusses
    THEN bank
    ELSE [w \in DOMAIN bank \cup {word} |->
            IF w = word
            THEN [appearance        |-> 1,
                  playersEncounterd |-> numplayers,
                  correctGusses     |-> correctGusses]
            ELSE bank[w]]

\* addWord without the guard of line 25
addWordUnguarded(bank, word, numplayers, correctGusses) ==
    LET cur == IF word \in DOMAIN bank THEN bank[word] ELSE NoRecord
    IN  [w \in DOMAIN bank \cup {word} |->
            IF w = word
            THEN [appearance        |-> cur.appearance + 1,
                  playersEncounterd |-> cur.playersEncounterd + numplayers,
                  correctGusses     |-> cur.correctGusses + correctGusses]
            ELSE bank[w]]

\* addWord that leaves the appearance count as it is
addWordNoCount(bank, word, numplayers, correctGusses) ==
    IF numplayers < 1 \/ correctGusses < 0 \/ numplayers < correctGusses
    THEN bank
    ELSE LET cur == IF word \in DOMAIN bank THEN bank[word] ELSE NoRecord
         IN  [w \in DOMAIN bank \cup {word} |->
                 IF w = word
                 THEN [appearance        |-> cur.appearance,
                       playersEncounterd |-> cur.playersEncounterd + numplayers,
                       correctGusses     |-> cur.correctGusses + correctGusses]
                 ELSE bank[w]]

addWord(bank, word, numplayers, correctGusses) ==
    IF numplayers < 1 \/ correctGusses < 0 \/ numplayers < correctGusses
    THEN bank
    ELSE LET cur == IF word \in DOMAIN bank THEN bank[word] ELSE NoRecord
         IN  [w \in DOMAIN bank \cup {word} |->
                 IF w = word
                 THEN [appearance        |-> cur.appearance + 1,
                       playersEncounterd |-> cur.playersEncounterd + numplayers,
                       correctGusses     |-> cur.correctGusses + correctGusses]
                 ELSE bank[w]]

Call(word, numplayers, correctGusses) ==
    [word |-> word, numplayers |-> numplayers, correctGusses |-> correctGusses]

----------------------------------------------------------------------------
(* Player.waitForRoundFinished and the spectator Game.run *)

timeout == 85000

POLL == 500

CLUE_PERIOD == 2000

MAX_AUTO == 7

MaxRounds == 1          \* rounds one model run joins

MaxPlayers == 3         \* most entries the page lists under .players-list

MaxGuessed == 1         \* most entries the page marks as .guessed

RevealTexts == {<<>>, <<"c","a","t">>}

ClueReads == {<<>>, <<"_","_","_">>, <<"c","_","_">>, <<"t","_","_">>}

RoundWordFiles ==
    {<<>>, [w \in {<<"c","a","t">>} |->
               [appearance |-> 1, playersEncounterd |-> 1, correctGusses |-> 1]]}

RoundTicks == 4         \* ticks after which a page that ends its rounds shows the answer

\* The game behind the page: one that shows any hint and ends every round
\* after RoundTicks ticks at the latest, one that shows few hints and may
\* never end a round, and one that shows no hint or one hint with three
\* candidates at any clue poll and may never end a round.
Pages ==
    {[clues |-> ClueReads, deadline |-> RoundTicks * POLL],
     [clues |-> {<<>>, <<"d","_","_">>, <<"_","_","_">>}, deadline |-> timeout + 2 * POLL],
     [clues |-> {<<>>, <<"c","_","p">>}, deadline |-> timeout + 2 * POLL]}

Top(st) == st[Len(st)]

Pop(st) == SubSeq(st, 1, Len(st) - 1)

SetTop(st, f) == [st EXCEPT ![Len(st)] = f]

\* the locals of a call at its first await (lines 132-138)
NewFrame ==
    [pc |-> "begin", timer |-> 0, clue |-> <<>>, submitted |-> FALSE,
     currentWord |-> <<>>]

\* a call past line 169: none of its locals is read again
TailFrame == [NewFrame EXCEPT !.pc = "tail"]

\* while (currentWord === this.#oldWord && timer <= timeout)
loopCondition(currentWord, old, timer) == currentWord = old /\ timer <= timeout

\* the throw test one tick late
timedOutLate(timer) == timer > timeout + POLL

\* if (timer > timeout) throw
timedOut(timer) == timer > timeout

\* the threshold with the upper boundary left out
shouldSubmitBelow(sols) == Len(sols) > 0 /\ Len(sols) < MAX_AUTO

\* if (solutions.length > 0 && solutions.length <= 7)
shouldSubmit(sols) == Len(sols) > 0 /\ Len(sols) <= MAX_AUTO

PACE == 1000

\* lines 149-152: the words of a batch are sent one after the other with
\* wait(1000) after each, so the last of them is sent PACE * (length - 1) ms
\* or more after the batch was started, which is `timer` ms or more after
\* the call began: is that past the round timeout?
endsLate(timer, sols) == timer + PACE * (Len(sols) - 1) > timeout

\* every reveal retried, the non-empty ones too
retryAlways(word) == TRUE

\* an empty reveal taken for the answer
retryNever(word) == FALSE

\* if (this.#oldWord === '') await this.waitForRoundFinished()
retry(word) == word = <<>>

\* The Game is constructed (lines 274-280) on a WordBank that loaded its file
\* (line 15).  The Player is new (oldWord = '') or is one that earlier
\* rounds left with a recorded word and recorded nothing else.
InitRound ==
    /\ sortedWords = build(CorpusRound)
    /\ NoBoot
    /\ NoSelfPlay
    /\ page \in Pages
    /\ target = NoTarget
    /\ clue = <<>>
    /\ solutions = <<>>
    /\ gpc = "join"
    /\ stack = <<>>
    /\ oldWord \in RevealTexts
    /\ playerCount = 0
    /\ correctGuesses = 0
    /\ batches = EmptyBag
    /\ wordFile \in RoundWordFiles
    /\ words = wordFile
    /\ rounds = 0
    /\ batchCount = 0
    /\ roundLog = NoLog
    /\ lastTick = [consulted |-> FALSE, clue |-> <<>>]
    /\ calls = EmptyBag
    /\ sinkAtStart = wordFile
    /\ callsAtStart = EmptyBag
    /\ sess = <<>>
    /\ wordsSimple = <<>>
    /\ simpleCalls = EmptyBag

NoTick == [consulted |-> FALSE, clue |-> <<>>]

\* Game.run, lines 295-298: joinGame, then the call of waitForRoundFinished
joinGame ==
    /\ gpc = "join"
    /\ rounds < MaxRounds
    /\ gpc' = "wait"
    /\ stack' = <<NewFrame>>
    /\ rounds' = rounds + 1
    /\ batchCount' = 0
    /\ lastTick' = NoTick
    /\ sinkAtStart' = words
    /\ callsAtStart' = calls
    /\ roundLog' = NoLog
    /\ UNCHANGED <<sortedWords, saveVars, bootVars, selfVars, resolverVars, bankVars, page, playerVars, batches, sinkVars>>

\* lines 138-139: the selector is there, the reveal text is read
readReveal ==
    /\ gpc = "wait"
    /\ Top(stack).pc = "begin"
    /\ \E text \in RevealTexts :
          stack' = SetTop(stack, [Top(stack) EXCEPT !.pc = "loop", !.currentWord = text])
    /\ lastTick' = NoTick
    /\ UNCHANGED <<sortedWords, saveVars, bootVars, selfVars, resolverVars, bankVars, roundLog, page, gpc, playerVars, batches, rounds,
                   batchCount, sinkAtStart, callsAtStart, sinkVars>>

\* lines 140-163: one pass of the polling loop
tick ==
    /\ gpc = "wait"
    /\ Top(stack).pc = "loop"
    /\ loopCondition(Top(stack).currentWord, oldWord, Top(stack).timer)
    /\ LET f      == Top(stack)
           timer1 == f.timer + POLL
           polled == timer1 % CLUE_PERIOD = 0
       IN  \E newClue \in (IF polled THEN page.clues ELSE {<<>>}),
              text \in (IF timer1 >= page.deadline THEN RevealTexts \ {oldWord}
                                                  ELSE RevealTexts),
              guessed \in 0..MaxGuessed :
             LET consulted == polled /\ f.clue # newClue /\ ~f.submitted
                 sols      == findSolutions(sortedWords, newClue)
                 start     == consulted /\ shouldSubmit(sols)
             IN  /\ batches' = IF start
                               THEN batches (+) SetToBag({[queue |-> WordsOf(sols),
                                                           alive |-> TRUE,
                                                           late  |-> endsLate(timer1, sols)]})
                               ELSE batches
                 /\ batchCount' = IF start THEN batchCount + 1 ELSE batchCount
                 /\ stack' = SetTop(stack, [f EXCEPT !.timer = timer1,
                                                      !.submitted = f.submitted \/ start,
                                                      !.currentWord = text])
                 /\ correctGuesses' = IF text = oldWord THEN guessed ELSE correctGuesses
                 /\ lastTick' = [consulted |-> consulted,
                                 clue |-> IF consulted THEN newClue ELSE <<>>]
                 /\ roundLog' = [polled   |-> roundLog.polled \/ polled,
                                 clue     |-> IF polled THEN newClue ELSE roundLog.clue,
                                 observed |-> roundLog.observed \/ text = oldWord,
                                 guessed  |-> IF text = oldWord THEN guessed
                                                               ELSE roundLog.guessed]
    /\ UNCHANGED <<sortedWords, saveVars, bootVars, selfVars, resolverVars, bankVars, page, gpc, oldWord, playerCount, rounds,
                   sinkAtStart, callsAtStart, sinkVars>>

\* line 164: the loop is over and the timer ran out; the error leaves every
\* active call and rejects Game.run
throwTimeout ==
    /\ gpc = "wait"
    /\ Top(stack).pc = "loop"
    /\ ~loopCondition(Top(stack).currentWord, oldWord, Top(stack).timer)
    /\ timedOut(Top(stack).timer)
    /\ gpc' = "thrown"
    /\ stack' = <<>>
    /\ lastTick' = NoTick
    /\ UNCHANGED <<sortedWords, saveVars, bootVars, selfVars, resolverVars, bankVars, roundLog, page, playerVars, batches, rounds,
                   batchCount, sinkAtStart, callsAtStart, sinkVars>>

\* lines 165-172: the loop is over in time
resolveRound ==
    /\ gpc = "wait"
    /\ Top(stack).pc = "loop"
    /\ ~loopCondition(Top(stack).currentWord, oldWord, Top(stack).timer)
    /\ ~timedOut(Top(stack).timer)
    /\ \E players \in 2..MaxPlayers : playerCount' = players - 2
    /\ correctGuesses' = IF Top(stack).submitted THEN correctGuesses - 1
                                                 ELSE correctGuesses
    /\ oldWord' = Top(stack).currentWord
    /\ stack' = IF retry(Top(stack).currentWord)
                THEN Append(SetTop(stack, TailFrame), NewFrame)
                ELSE SetTop(stack, TailFrame)
    /\ lastTick' = NoTick
    /\ UNCHANGED <<sortedWords, saveVars, bootVars, selfVars, resolverVars, bankVars, roundLog, page, gpc, batches, rounds,
                   batchCount, sinkAtStart, callsAtStart, sinkVars>>

\* line 173 in a nested call: the wait is over, the caller goes on
returnNested ==
    /\ gpc = "wait"
    /\ Top(stack).pc = "tail"
    /\ Len(stack) > 1
    /\ stack' = Pop(stack)
    /\ lastTick' = NoTick
    /\ UNCHANGED <<sortedWords, saveVars, bootVars, selfVars, resolverVars, bankVars, roundLog, page, gpc, playerVars, batches, rounds,
                   batchCount, sinkAtStart, callsAtStart, sinkVars>>

\* line 173 in the call made by Game.run, then lines 299-300: addWord
returnAndAddWord ==
    /\ gpc = "wait"
    /\ Top(stack).pc = "tail"
    /\ Len(stack) = 1
    /\ stack' = <<>>
    /\ gpc' = "join"
    /\ words' = addWord(words, oldWord, playerCount, correctGuesses)
    /\ calls' = calls (+) SetToBag({Call(oldWord, playerCount, correctGuesses)})
    /\ lastTick' = NoTick
    /\ UNCHANGED <<sortedWords, saveVars, bootVars, selfVars, resolverVars, bankVars, roundLog, page, playerVars, batches, rounds,
                   batchCount, sinkAtStart, callsAtStart>>

\* lines 149-152: a detached promise sends its next candidate; after the
\* last one it resolves
submitWord ==
    \E b \in BagToSet(batches) :
        /\ b.alive
        /\ batches' = (batches (-) SetToBag({b})) (+)
                      (IF Len(b.queue) > 1
                       THEN SetToBag({[b EXCEPT !.queue = Tail(@)]})
                       ELSE EmptyBag)
        /\ UNCHANGED <<sortedWords, saveVars, bootVars, selfVars, resolverVars, bankVars, roundLog, page, gpc, stack, playerVars,
                       rounds, batchCount, lastTick, sinkAtStart, callsAtStart, sinkVars>>

\* lines 149-150 after kill(): the page is closed, submitWord fails and the
\* promise ends there
submitFails ==
    \E b \in BagToSet(batches) :
        /\ ~b.alive
        /\ batches' = batches (-) SetToBag({b})
        /\ UNCHANGED <<sortedWords, saveVars, bootVars, selfVars, resolverVars, bankVars, roundLog, page, gpc, stack, playerVars,
                       rounds, batchCount, lastTick, sinkAtStart, callsAtStart, sinkVars>>

\* Player.kill(): the promises of this Player now run on a closed page
RECURSIVE pageClosed(_, _)
pageClosed(bs, bag) ==
    IF bs = {} THEN EmptyBag
    ELSE LET b == CHOOSE x \in bs : TRUE
         IN  [x \in {[b EXCEPT !.alive = FALSE]} |-> CopiesIn(b, bag)]
                 (+) pageClosed(bs \ {b}, bag)

\* lines 325-330 (and 337): the rejection handler kills the page, builds a new
\* Game with a new Player on the same WordBank and runs it
restart ==
    /\ gpc = "thrown"
    /\ gpc' = "join"
    /\ oldWord' = <<>>
    /\ playerCount' = 0
    /\ correctGuesses' = 0
    /\ batches' = pageClosed(BagToSet(batches), batches)
    /\ lastTick' = NoTick
    /\ UNCHANGED <<sortedWords, saveVars, bootVars, selfVars, resolverVars, bankVars, roundLog, page, stack, rounds, batchCount,
                   sinkAtStart, callsAtStart, sinkVars>>

NextRound ==
    \/ joinGame
    \/ readReveal
    \/ tick
    \/ throwTimeout
    \/ resolveRound
    \/ returnNested
    \/ returnAndAddWord
    \/ submitWord
    \/ submitFails
    \/ restart

SpecRound == InitRound /\ [][NextRound]_vars

\* the steps of the active calls of waitForRoundFinished
callStep ==
    \/ readReveal
    \/ tick
    \/ throwTimeout
    \/ resolveRound
    \/ returnNested
    \/ returnAndAddWord

\* every await of the call is a timer that fires or a request the page
\* answers, so a call that can take its next step takes it
SpecRoundFair == SpecRound /\ WF_vars(callStep)

----------------------------------------------------------------------------
(* Claims about the round wait *)

InLoop == gpc = "wait" /\ stack # <<>> /\ Top(stack).pc = "loop"

\* a step that is one pass of the polling loop of the innermost call
IsTick ==
    /\ InLoop
    /\ Len(stack') = Len(stack)
    /\ Top(stack').timer = Top(stack).timer + POLL

BatchStarted ==
    /\ BagCardinality(batches') = BagCardinality(batches) + 1
    /\ batchCount' = batchCount + 1
    /\ Top(stack').submitted

\* C1: at a tick that calls findSolutions while the call has started no
\* batch, a batch is started if and only if findSolutions returns between 1
\* and 7 candidates; with 0 or with 8 and more candidates none is started.
C1_BatchIffOneToSeven ==
    [][(IsTick /\ lastTick'.consulted /\ ~Top(stack).submitted) =>
          LET n == Len(findSolutions(sortedWords, lastTick'.clue))
          IN  /\ BatchStarted <=> (1 <= n /\ n <= 7)
              /\ (n = 0 \/ n >= 8) => (batches' = batches /\ batchCount' = batchCount)]_vars

C1_Witness ==
    /\ InLoop
    /\ lastTick.consulted
    /\ Len(findSolutions(sortedWords, lastTick.clue)) = 7
    /\ Top(stack).submitted
    /\ batchCount = 1

\* C2: between the call Game.run makes and its return or throw, nested call
\* included, at most one batch is started.
C2_OneBatchPerRound == batchCount <= 1

\* C8: a call whose reveal text stayed the recorded word until the timer
\* passed the timeout throws; Game.run makes no addWord call for the round
\* and the sink is what it was when the round began.
C8_TimeoutLeavesSink ==
    /\ [](gpc = "thrown" => (words = sinkAtStart /\ calls = callsAtStart))
    /\ [][(InLoop /\ Top(stack).timer > timeout /\ Top(stack).currentWord = oldWord) =>
             \/ gpc' = "thrown" /\ words' = words /\ calls' = calls
             \/ UNCHANGED <<gpc, stack, words, calls>>]_vars

C8_Witness ==
    /\ gpc = "thrown"
    /\ words # <<>>
    /\ words = sinkAtStart
    /\ rounds >= 1

\* C9: a reveal text read in the loop that differs from the recorded word
\* makes the call go on without throwing, with that text recorded; the
\* timeout error is thrown only when the last text read is the recorded word.
C9_ChangedTextNeverThrows ==
    [][/\ (InLoop /\ Top(stack).currentWord # oldWord /\ stack' # stack) =>
             (gpc' # "thrown" /\ oldWord' = Top(stack).currentWord)
       /\ (gpc = "wait" /\ gpc' = "thrown") => Top(stack).currentWord = oldWord]_vars

\* C10: an empty reveal text that ends the loop is not returned: the call
\* calls itself again, and Game.run gets the call back only with a
\* non-empty recorded word.
C10_EmptyRevealRetried ==
    [][/\ (InLoop /\ Top(stack).currentWord = <<>> /\ oldWord # <<>>
               /\ Top(stack).timer <= timeout /\ stack' # stack) =>
             (gpc' = "wait" /\ Len(stack') = Len(stack) + 1 /\ Top(stack') = NewFrame)
       /\ (gpc = "wait" /\ gpc' = "join") =>
             (oldWord # <<>> /\ oldWord' # <<>>
              /\ \A c \in BagToSet(calls') : c.word # <<>>)]_vars

C10_Witness ==
    /\ gpc = "wait"
    /\ Len(stack) = 2
    /\ Top(stack).pc = "tail"
    /\ oldWord # <<>>

----------------------------------------------------------------------------
(* WordBank, simple mode (the self-play bot), lines 363-368 *)

\* addWord that starts every count again
addWordSimpleReset(bank, word) ==
    [w \in DOMAIN bank \cup {word} |-> IF w = word THEN 1 ELSE bank[w]]

addWordSimple(bank, word) ==
    [w \in DOMAIN bank \cup {word} |->
        IF w = word THEN (IF word \in DOMAIN bank THEN bank[word] ELSE 0) + 1
                    ELSE bank[w]]

\* result[1].forEach(w => this.#wordBank.addWord(w))
RECURSIVE addWords(_, _)
addWords(bank, ws) ==
    IF ws = <<>> THEN bank ELSE addWords(addWordSimple(bank, Head(ws)), Tail(ws))

RECURSIVE BagOfSeq(_)
BagOfSeq(ws) ==
    IF ws = <<>> THEN EmptyBag ELSE SetToBag({Head(ws)}) (+) BagOfSeq(Tail(ws))

----------------------------------------------------------------------------
(* Several sessions on one WordBank.  A session is a Game.run with its     *)
(* Player; what waitForRoundFinished leaves in the Player's fields is the  *)
(* input here.                                                             *)

NumGames == 2           \* config.numGames

MaxCalls == 3           \* rounds and self-play turns one model run records

\* the Player fields a finished round can leave: word, playerCount, correctGuesses
RoundResults ==
    {Call("apple", 5, 3), Call("apple", 4, 2), Call("apple", 0, 0),
     Call("apple", 3, -1), Call("apple", 2, 3), Call("pear", 5, 3),
     Call("pear", -1, 0)}

\* the choice sets chooseWord can return
OfferedChoices ==
    {<<"apple", "pear", "plum">>, <<"plum", "apple", "plum">>}

WordFiles ==
    {<<>>, [w \in {"apple"} |->
               [appearance |-> 1, playersEncounterd |-> 3, correctGusses |-> 1]]}

NewPlayer == [pc |-> "off", oldWord |-> "", playerCount |-> 0, correctGuesses |-> 0]

InitSink ==
    /\ sortedWords = build(CorpusExample)
    /\ NoBoot
    /\ NoSelfPlay
    /\ target = NoTarget
    /\ clue = <<>>
    /\ solutions = <<>>
    /\ page = [clues |-> {}, deadline |-> 0]
    /\ gpc = "off"
    /\ stack = <<>>
    /\ oldWord = <<>>
    /\ playerCount = 0
    /\ correctGuesses = 0
    /\ batches = EmptyBag
    /\ rounds = 0
    /\ batchCount = 0
    /\ roundLog = NoLog
    /\ lastTick = [consulted |-> FALSE, clue |-> <<>>]
    /\ sinkAtStart = <<>>
    /\ callsAtStart = EmptyBag
    /\ wordFile \in WordFiles
    /\ words = wordFile
    /\ calls = EmptyBag
    /\ sess = [i \in 1..NumGames |-> NewPlayer]
    /\ wordsSimple = <<>>
    /\ simpleCalls = EmptyBag

Pending == Cardinality({i \in DOMAIN sess : sess[i].pc = "resolved"})

\* rounds finished and self-play turns recorded so far
Recorded == BagCardinality(calls) + Pending + BagCardinality(simpleCalls) \div 3

\* lines 334-338: the bootstrap builds the games one after the other and
\* starts each run
startRun(i) ==
    /\ sess[i].pc = "off"
    /\ \A j \in 1..(i - 1) : sess[j].pc # "off"
    /\ sess' = [sess EXCEPT ![i].pc = "wait"]
    /\ UNCHANGED <<sortedWords, saveVars, bootVars, selfVars, resolverVars, roundVars, sinkVars, wordFile,
                   wordsSimple, simpleCalls>>

\* lines 165-173 seen from Game.run: waitForRoundFinished is back and the
\* Player holds the round's word and counts
roundFinished(i) ==
    /\ sess[i].pc = "wait"
    /\ Recorded < MaxCalls
    /\ \E r \in RoundResults :
          sess' = [sess EXCEPT ![i] = [pc |-> "resolved", oldWord |-> r.word,
                                       playerCount |-> r.numplayers,
                                       correctGuesses |-> r.correctGusses]]
    /\ UNCHANGED <<sortedWords, saveVars, bootVars, selfVars, resolverVars, roundVars, sinkVars, wordFile,
                   wordsSimple, simpleCalls>>

\* line 300: addWord(getWord(), playerCount, correctGusses), then the loop
\* goes back to joinGame
runAddWord(i) ==
    /\ sess[i].pc = "resolved"
    /\ words' = addWord(words, sess[i].oldWord, sess[i].playerCount,
                        sess[i].correctGuesses)
    /\ calls' = calls (+) SetToBag({Call(sess[i].oldWord, sess[i].playerCount,
                                          sess[i].correctGuesses)})
    /\ sess' = [sess EXCEPT ![i].pc = "wait"]
    /\ UNCHANGED <<sortedWords, saveVars, bootVars, selfVars, resolverVars, roundVars, wordFile,
                   wordsSimple, simpleCalls>>

\* lines 615-619 of the self-play Game.run: every offered word goes to the
\* simple WordBank in one synchronous forEach
recordChoices ==
    /\ Recorded < MaxCalls
    /\ \E offered \in OfferedChoices :
          /\ wordsSimple' = addWords(wordsSimple, offered)
          /\ simpleCalls' = simpleCalls (+) BagOfSeq(offered)
    /\ UNCHANGED <<sortedWords, saveVars, bootVars, selfVars, resolverVars, roundVars, sinkVars, wordFile, sess>>

NextSink ==
    \/ \E i \in 1..NumGames : startRun(i)
    \/ \E i \in 1..NumGames : roundFinished(i)
    \/ \E i \in 1..NumGames : runAddWord(i)
    \/ recordChoices

SpecSink == InitSink /\ [][NextSink]_vars

----------------------------------------------------------------------------
(* Claims about the word sink *)

Accepted(c) ==
    c.numplayers >= 1 /\ c.correctGusses >= 0 /\ c.correctGusses <= c.numplayers

RECURSIVE SumCalls(_, _, _)
SumCalls(cs, bag, field) ==
    IF cs = {} THEN 0
    ELSE LET c == CHOOSE x \in cs : TRUE
             v == CASE field = "appearance" -> 1
                    [] field = "playersEncounterd" -> c.numplayers
                    [] field = "correctGusses" -> c.correctGusses
         IN  CopiesIn(c, bag) * v + SumCalls(cs \ {c}, bag, field)

AcceptedFor(w) == {c \in BagToSet(calls) : c.word = w /\ Accepted(c)}

RecordOf(bank, w) == IF w \in DOMAIN bank THEN bank[w] ELSE NoRecord

SinkWords == {"apple", "pear", "plum"}

\* C6: whatever the interleaving of the sessions, every record of the
\* scored sink is the loaded record plus the totals of the accepted calls
\* for that word (apple with (5,3) then (4,2) on an empty sink gives
\* {2, 9, 5}), and every count of the simple sink is the number of calls.
C6_NoLostUpdate ==
    /\ \A w \in SinkWords :
          /\ w \in DOMAIN words <=> (w \in DOMAIN wordFile \/ AcceptedFor(w) # {})
          /\ \A field \in {"appearance", "playersEncounterd", "correctGusses"} :
                RecordOf(words, w)[field] =
                    RecordOf(wordFile, w)[field] + SumCalls(AcceptedFor(w), calls, field)
          /\ w \in DOMAIN wordsSimple <=> CopiesIn(w, simpleCalls) > 0
          /\ w \in DOMAIN wordsSimple => wordsSimple[w] = CopiesIn(w, simpleCalls)
    /\ DOMAIN words \subseteq SinkWords
    /\ DOMAIN wordsSimple \subseteq SinkWords
    /\ (wordFile = <<>>
          /\ calls = SetToBag({Call("apple", 5, 3), Call("apple", 4, 2)})) =>
         words = [w \in {"apple"} |->
                    [appearance |-> 2, playersEncounterd |-> 9, correctGusses |-> 5]]

C6_Witness ==
    /\ wordFile = <<>>
    /\ "apple" \in DOMAIN words
    /\ words["apple"] = [appearance |-> 2, playersEncounterd |-> 9, correctGusses |-> 5]
    /\ "plum" \in DOMAIN wordsSimple
    /\ wordsSimple["plum"] = 2

Rejected(c) ==
    c.correctGusses < 0 \/ c.correctGusses > c.numplayers \/ c.numplayers <= 0

\* C7: a scored addWord call with a negative correct-guess count, with a
\* correct-guess count above the player count, or with a player count of
\* zero or less leaves the whole sink as it was.
C7_InvalidCallIgnored ==
    [][\A c \in BagToSet(calls') :
          (CopiesIn(c, calls') > CopiesIn(c, calls) /\ Rejected(c)) => words' = words]_vars

C7_Witness ==
    /\ words = wordFile
    /\ words # <<>>
    /\ calls = SetToBag({Call("apple", 0, 0), Call("apple", 3, -1), Call("apple", 2, 3)})

----------------------------------------------------------------------------
(* The two bootstraps: the spectator's (lines 321-340), which gives every   *)
(* run its own rejection handler, and the self-play's (lines 669-701),      *)
(* which awaits the last run inside one try/catch.  A session is a Game     *)
(* with its run promise and its pages.                                      *)

MaxFailures == 2        \* errors the page driver raises in one model run

Variants == {"spectator", "selfplay"}

NoGame == [pc |-> "none", page |-> "none", gen |-> 0]

\* the process has launched the browser and built the WordBank
\* (lines 322-323, 670-671)
InitBoot ==
    /\ sortedWords = build(CorpusExample)
    /\ target = NoTarget
    /\ clue = <<>>
    /\ solutions = <<>>
    /\ page = [clues |-> {}, deadline |-> 0]
    /\ gpc = "off"
    /\ stack = <<>>
    /\ oldWord = <<>>
    /\ playerCount = 0
    /\ correctGuesses = 0
    /\ batches = EmptyBag
    /\ rounds = 0
    /\ batchCount = 0
    /\ roundLog = NoLog
    /\ lastTick = [consulted |-> FALSE, clue |-> <<>>]
    /\ sinkAtStart = <<>>
    /\ callsAtStart = EmptyBag
    /\ wordFile \in WordFiles
    /\ words = wordFile
    /\ calls = EmptyBag
    /\ sess = <<>>
    /\ wordsSimple = <<>>
    /\ simpleCalls = EmptyBag
    /\ NoSelfPlay
    /\ variant \in Variants
    /\ boot = [pc |-> IF variant = "spectator" THEN "build" ELSE "head", i |-> 1]
    /\ games = [i \in 1..NumGames |-> NoGame]
    /\ orphans = 0
    /\ unhandled = EmptyBag
    /\ failures = 0
    /\ disk = (IF variant = "spectator" THEN words ELSE wordsSimple)
    /\ writes = <<>>
    /\ saveErrors = 0

\* lines 334-336: const game = new Game(wb, ...); await game.init(browser).
\* A rejection of init rejects the bootstrap function, which nothing awaits.
bootInit ==
    /\ variant = "spectator"
    /\ boot.pc = "build"
    /\ \/ /\ games' = [games EXCEPT ![boot.i] =
                          [pc |-> "ready", page |-> "open", gen |-> 1]]
          /\ boot' = [boot EXCEPT !.pc = "start"]
          /\ UNCHANGED <<unhandled, failures>>
       \/ /\ failures < MaxFailures
          /\ failures' = failures + 1
          /\ boot' = [boot EXCEPT !.pc = "rejected"]
          /\ unhandled' = unhandled (+) SetToBag({"bootstrap"})
          /\ UNCHANGED games
    /\ UNCHANGED <<sortedWords, saveVars, resolverVars, roundVars, sinkVars, bankVars, selfVars,
                   variant, orphans>>

\* lines 337-338: game.run().catch(...), then the 10 s wait before the next game
bootRun ==
    /\ variant = "spectator"
    /\ boot.pc = "start"
    /\ games' = [games EXCEPT ![boot.i].pc = "run"]
    /\ boot' = IF boot.i < NumGames THEN [pc |-> "build", i |-> boot.i + 1]
                                    ELSE [pc |-> "done", i |-> boot.i]
    /\ UNCHANGED <<sortedWords, saveVars, resolverVars, roundVars, sinkVars, bankVars, selfVars,
                   variant, orphans, unhandled, failures>>

\* lines 293-302, 329, 337: Game.run rejects (the round timeout of line 164
\* or a page-driver error); the handler given to catch is queued
runRejects(i) ==
    /\ variant = "spectator"
    /\ games[i].pc = "run"
    /\ failures < MaxFailures
    /\ failures' = failures + 1
    /\ games' = [games EXCEPT ![i].pc = "rejected"]
    /\ UNCHANGED <<sortedWords, saveVars, resolverVars, roundVars, sinkVars, bankVars, selfVars,
                   variant, boot, orphans, unhandled>>

\* lines 326-328: the handler calls restart: game.p1.kill(), game = new
\* Game(wb, ...), and game.init(browser) is awaited
restartKill(i) ==
    /\ variant = "spectator"
    /\ games[i].pc = "rejected"
    /\ games' = [games EXCEPT ![i] = [pc |-> "init", page |-> "closed", gen |-> @.gen + 1]]
    /\ UNCHANGED <<sortedWords, saveVars, resolverVars, roundVars, sinkVars, bankVars, selfVars,
                   variant, boot, orphans, unhandled, failures>>

\* lines 328-329: init is over: the new run starts with its handler; or init
\* rejected, which rejects the promise of restart that the handler dropped
restartInit(i) ==
    /\ variant = "spectator"
    /\ games[i].pc = "init"
    /\ \/ /\ games' = [games EXCEPT ![i].pc = "run", ![i].page = "open"]
          /\ UNCHANGED <<unhandled, failures>>
       \/ /\ failures < MaxFailures
          /\ failures' = failures + 1
          /\ games' = [games EXCEPT ![i].pc = "dead"]
          /\ unhandled' = unhandled (+) SetToBag({"restart"})
    /\ UNCHANGED <<sortedWords, saveVars, resolverVars, roundVars, sinkVars, bankVars, selfVars,
                   variant, boot, orphans>>

\* line 300 in a running spectator Game: one more round goes to the WordBank
\* every Game was built on
spectatorRound(i) ==
    /\ variant = "spectator"
    /\ games[i].pc = "run"
    /\ BagCardinality(calls) < MaxCalls
    /\ \E r \in RoundResults :
          /\ words' = addWord(words, r.word, r.numplayers, r.correctGusses)
          /\ calls' = calls (+) SetToBag({r})
    /\ UNCHANGED <<sortedWords, saveVars, resolverVars, roundVars, bankVars, selfVars, bootVars>>

\* lines 682-687: the head of the bootstrap loop closes every page of the
\* browser and starts a new games array; the runs of the games it drops
\* are still pending
selfHead ==
    /\ variant = "selfplay"
    /\ boot.pc = "head"
    /\ orphans' = orphans + Cardinality({i \in 1..NumGames : games[i].pc = "run"})
    /\ games' = [i \in 1..NumGames |->
                    [pc |-> "none",
                     page |-> IF games[i].page = "none" THEN "none" ELSE "closed",
                     gen |-> games[i].gen]]
    /\ boot' = [pc |-> "build", i |-> 1]
    /\ UNCHANGED <<sortedWords, saveVars, resolverVars, roundVars, sinkVars, bankVars, selfVars,
                   variant, unhandled, failures>>

\* lines 688-691: games[i] = new Game(wb, language); await games[i].init(browser).
\* A rejection is caught at line 698 and the loop starts again.
selfInit ==
    /\ variant = "selfplay"
    /\ boot.pc = "build"
    /\ \/ /\ games' = [games EXCEPT ![boot.i] =
                          [pc |-> "ready", page |-> "open", gen |-> @.gen + 1]]
          /\ boot' = IF boot.i < NumGames THEN [pc |-> "build", i |-> boot.i + 1]
                                          ELSE [pc |-> "start", i |-> boot.i]
          /\ UNCHANGED failures
       \/ /\ failures < MaxFailures
          /\ failures' = failures + 1
          /\ boot' = [pc |-> "head", i |-> 1]
          /\ UNCHANGED games
    /\ UNCHANGED <<sortedWords, saveVars, resolverVars, roundVars, sinkVars, bankVars, selfVars,
                   variant, orphans, unhandled>>

\* lines 693-697: every run is started, the last one is awaited
selfStartRuns ==
    /\ variant = "selfplay"
    /\ boot.pc = "start"
    /\ games' = [i \in 1..NumGames |-> [games[i] EXCEPT !.pc = "run"]]
    /\ boot' = [pc |-> "await", i |-> NumGames]
    /\ UNCHANGED <<sortedWords, saveVars, resolverVars, roundVars, sinkVars, bankVars, selfVars,
                   variant, orphans, unhandled, failures>>

\* lines 606-638, 693-700: a self-play Game.run rejects.  The last game's
\* promise is the awaited one: its rejection is caught and the loop starts
\* again.  The promise of any other game was dropped at line 694.
selfRunRejects(i) ==
    /\ variant = "selfplay"
    /\ games[i].pc = "run"
    /\ failures < MaxFailures
    /\ failures' = failures + 1
    /\ IF i = NumGames
       THEN /\ games' = [games EXCEPT ![i].pc = "rejected"]
            /\ boot' = [pc |-> "head", i |-> 1]
            /\ UNCHANGED unhandled
       ELSE /\ games' = [games EXCEPT ![i].pc = "dead"]
            /\ unhandled' = unhandled (+) SetToBag({"run"})
            /\ UNCHANGED boot
    /\ UNCHANGED <<sortedWords, saveVars, resolverVars, roundVars, sinkVars, bankVars, selfVars,
                   variant, orphans>>

\* a run the bootstrap dropped makes its next page-driver call on a closed
\* page: it rejects and nothing handles it
orphanRejects ==
    /\ variant = "selfplay"
    /\ orphans > 0
    /\ orphans' = orphans - 1
    /\ unhandled' = unhandled (+) SetToBag({"run"})
    /\ UNCHANGED <<sortedWords, saveVars, resolverVars, roundVars, sinkVars, bankVars, selfVars,
                   variant, boot, games, failures>>

\* lines 617-619 in a running self-play Game: the offered words go to the
\* WordBank every Game was built on
selfTurn(i) ==
    /\ variant = "selfplay"
    /\ games[i].pc = "run"
    /\ BagCardinality(simpleCalls) < 3 * MaxCalls
    /\ \E offered \in OfferedChoices :
          /\ wordsSimple' = addWords(wordsSimple, offered)
          /\ simpleCalls' = simpleCalls (+) BagOfSeq(offered)
    /\ UNCHANGED <<sortedWords, saveVars, resolverVars, roundVars, sinkVars, wordFile, sess,
                   selfVars, bootVars>>

MaxWrites == 1          \* writeFile calls in flight at a time

MaxSaveErrors == 1      \* writes that fail

\* the callback of writeFile that only logs and loses the bank on an error
saveCallbackDrops(bank, err) == IF err THEN <<>> ELSE bank

\* lines 45-46 (372-373): (err) => { console.error(err); } logs its argument
\* and touches nothing of the WordBank
saveCallback(bank, err) == bank

\* get words() of the WordBank the process built
bankWords == IF variant = "spectator" THEN words ELSE wordsSimple

\* lines 16 and 43-44 (354 and 370-371): the interval timer set in the
\* constructor fires and save() hands the text of the bank, as it is now, to
\* writeFile; save() returns at once
save ==
    /\ variant \in Variants
    /\ Len(writes) < MaxWrites
    /\ writes' = Append(writes, bankWords)
    /\ UNCHANGED <<sortedWords, resolverVars, roundVars, sinkVars, bankVars, selfVars,
                   bootVars, disk, saveErrors>>

\* lines 44-46: the write is done and the callback logs its null argument
writeDone ==
    /\ writes # <<>>
    /\ disk' = Head(writes)
    /\ writes' = Tail(writes)
    /\ words' = saveCallback(words, FALSE)
    /\ wordsSimple' = saveCallback(wordsSimple, FALSE)
    /\ UNCHANGED <<sortedWords, resolverVars, roundVars, calls, wordFile, sess,
                   simpleCalls, selfVars, bootVars, saveErrors>>

\* lines 44-46: the file could not be opened for writing and the callback
\* logs the error
writeFails ==
    /\ writes # <<>>
    /\ saveErrors < MaxSaveErrors
    /\ saveErrors' = saveErrors + 1
    /\ writes' = Tail(writes)
    /\ words' = saveCallback(words, TRUE)
    /\ wordsSimple' = saveCallback(wordsSimple, TRUE)
    /\ UNCHANGED <<sortedWords, resolverVars, roundVars, calls, wordFile, sess,
                   simpleCalls, selfVars, bootVars, disk>>

NextBoot ==
    \/ bootInit
    \/ bootRun
    \/ \E i \in 1..NumGames : runRejects(i)
    \/ \E i \in 1..NumGames : restartKill(i)
    \/ \E i \in 1..NumGames : restartInit(i)
    \/ \E i \in 1..NumGames : spectatorRound(i)
    \/ selfHead
    \/ selfInit
    \/ selfStartRuns
    \/ \E i \in 1..NumGames : selfRunRejects(i)
    \/ orphanRejects
    \/ \E i \in 1..NumGames : selfTurn(i)
    \/ save
    \/ writeDone
    \/ writeFails

SpecBoot == InitBoot /\ [][NextBoot]_vars

\* the event loop runs every continuation and handler that is ready, the
\* interval timer fires and every write ends; when the page driver raises
\* an error is up to the pages
SpecBootFair ==
    /\ SpecBoot
    /\ WF_vars(bootInit)
    /\ WF_vars(bootRun)
    /\ \A i \in 1..NumGames : WF_vars(restartKill(i)) /\ WF_vars(restartInit(i))
    /\ WF_vars(selfHead)
    /\ WF_vars(selfInit)
    /\ WF_vars(selfStartRuns)
    /\ WF_vars(orphanRejects)
    /\ WF_vars(save)
    /\ WF_vars(writeDone \/ writeFails)

----------------------------------------------------------------------------
(* Claims about the bootstraps *)

\* C11: an error of one session's run is handled for that session only: the
\* page of a started session is closed only after its own run rejected, a
\* running session stops running only by its own rejection, which a handler
\* takes, and no rejection of a run is left unhandled.
C11_FailureStaysInSession ==
    /\ [][\A j \in 1..NumGames :
             /\ (games[j].page = "open" /\ games'[j].page # "open") =>
                    games[j].pc \in {"rejected", "ready"}
             /\ (games[j].pc = "run" /\ games'[j].pc # "run") =>
                    games'[j].pc = "rejected"]_vars
    /\ [](CopiesIn("run", unhandled) = 0)

Failed(i) == games[i].pc \in {"rejected", "dead"}

\* C12: every failure of a session is eventually followed by a replacement
\* session that runs on an open page, also when the failure is raised while
\* the replacement is initialised.
C12_FailureLeadsToReplacement ==
    \A i \in 1..NumGames :
        (Failed(i) \/ games[i].pc = "init") ~> (games[i].pc = "run" /\ games[i].page = "open")

----------------------------------------------------------------------------
(* The self-play Game (lines 567-667): two Players in one private room,   *)
(* one draws and one guesses, every turn the offered words are recorded.  *)

ROUNDS == 10

MaxTurns == 41          \* turns one model run plays

Players == {"p1", "p2"}

\* this.#oldWords = ['\'\'', '\'\'', '\'\''] (line 410)
InitialOldWords == <<"''", "''", "''">>

\* the words the page can offer in one turn, in page order
Offers == {<<"apple", "pear", "plum">>, <<"plum", "apple">>}

\* Math.floor(Math.random() * 3)
Choices == 0..2

\* the drawer is always taken for Player 1
oppositeStuck(t) == "p1"

\* Game.opposite, lines 644-646
opposite(t) == IF t = "p1" THEN "p2" ELSE "p1"

\* a match restarted after one round per side
restartDueHalf(r) == r = ROUNDS

\* if (this.#round === Game.ROUNDS * 2)
restartDue(r) == r = ROUNDS * 2

\* lines 484-486: this.#oldWords[i] = text of wordElems[i], for every element
\* the page shows; the entries past them stay
overwrite(old, offered) ==
    [i \in 1..(IF Len(offered) > Len(old) THEN Len(offered) ELSE Len(old)) |->
        IF i <= Len(offered) THEN offered[i] ELSE old[i]]

\* Player.chooseWord, lines 480-489.  The value is what the call resolves
\* with, or "TypeError" when wordElems[choice] is undefined at line 487.
chooseWord(inRoom, old, offered, choice) ==
    IF ~inRoom THEN << <<>>, <<>> >>
    ELSE IF choice + 1 > Len(offered) THEN "TypeError"
    ELSE <<overwrite(old, offered)[choice + 1], overwrite(old, offered)>>

\* new Game(wb, language), lines 581-588, and init (lines 594-601) is over:
\* both Players are in the room
InitSelfPlay ==
    /\ sortedWords = build(CorpusExample)
    /\ target = NoTarget
    /\ clue = <<>>
    /\ solutions = <<>>
    /\ page = [clues |-> {}, deadline |-> 0]
    /\ gpc = "off"
    /\ stack = <<>>
    /\ oldWord = <<>>
    /\ playerCount = 0
    /\ correctGuesses = 0
    /\ batches = EmptyBag
    /\ words = <<>>
    /\ rounds = 0
    /\ batchCount = 0
    /\ roundLog = NoLog
    /\ lastTick = [consulted |-> FALSE, clue |-> <<>>]
    /\ calls = EmptyBag
    /\ sinkAtStart = <<>>
    /\ callsAtStart = EmptyBag
    /\ wordFile = <<>>
    /\ sess = <<>>
    /\ wordsSimple \in {<<>>, [w \in {"plum"} |-> 2]}
    /\ simpleCalls = EmptyBag
    /\ NoBoot
    /\ turn = "p2"
    /\ opponant = "none"
    /\ round = 1
    /\ spc = "begin"
    /\ result = <<>>
    /\ oldWords = [p \in Players |-> InitialOldWords]
    /\ turns = 0
    /\ matches = <<>>
    /\ turnLog = [offered |-> <<>>, before |-> wordsSimple]

\* lines 607-609: let opponant = this.opposite(); await this.#p1.startGame()
runBegin ==
    /\ spc = "begin"
    /\ opponant' = opposite(turn)
    /\ matches' = Append(matches, turns)
    /\ spc' = "choices"
    /\ UNCHANGED <<sortedWords, saveVars, resolverVars, roundVars, sinkVars, bankVars, bootVars,
                   turn, round, result, oldWords, turns, turnLog>>

\* line 613, Player.waitForChoicesGiven (lines 526-538): the page offers
\* words; the wait is over when the first one is not this Player's
\* oldWords[0], and throws after its 30 s otherwise
waitForChoicesGiven ==
    /\ spc = "choices"
    /\ turns < MaxTurns
    /\ \E offered \in Offers :
          /\ turnLog' = [offered |-> offered, before |-> wordsSimple]
          /\ spc' = IF offered[1] # oldWords[turn][1] THEN "choose" ELSE "rejected"
    /\ UNCHANGED <<sortedWords, saveVars, resolverVars, roundVars, sinkVars, bankVars, bootVars,
                   turn, opponant, round, result, oldWords, turns, matches>>

\* line 615: const result = await this.#turn.chooseWord()
runChooseWord ==
    /\ spc = "choose"
    /\ \E choice \in Choices :
          LET r == chooseWord(TRUE, oldWords[turn], turnLog.offered, choice)
          IN  /\ oldWords' = [oldWords EXCEPT ![turn] = overwrite(@, turnLog.offered)]
              /\ IF r = "TypeError"
                 THEN spc' = "rejected" /\ UNCHANGED result
                 ELSE spc' = "record" /\ result' = r
    /\ UNCHANGED <<sortedWords, saveVars, resolverVars, roundVars, sinkVars, bankVars, bootVars,
                   turn, opponant, round, turns, matches, turnLog>>

\* lines 616-620: result[1].forEach(w => addWord(w)), then the call of
\* opponant.waitForWordPicked()
runAddWords ==
    /\ spc = "record"
    /\ wordsSimple' = addWords(wordsSimple, result[2])
    /\ simpleCalls' = simpleCalls (+) BagOfSeq(result[2])
    /\ spc' = "picked"
    /\ UNCHANGED <<sortedWords, saveVars, resolverVars, roundVars, sinkVars, wordFile, sess, bootVars,
                   turn, opponant, round, result, oldWords, turns, matches, turnLog>>

\* lines 620-621: waitForWordPicked is over, opponant.submitWord(result[0])
\* is called
waitForWordPicked ==
    /\ spc = "picked"
    /\ spc' = "submit"
    /\ UNCHANGED <<sortedWords, saveVars, resolverVars, roundVars, sinkVars, bankVars, bootVars,
                   turn, opponant, round, result, oldWords, turns, matches, turnLog>>

\* lines 621-636: the guess is sent, the roles swap; then either the match
\* is over (round = 0 and the cooldown starts) or the round counter goes up
endTurn ==
    /\ spc = "submit"
    /\ turn' = opponant
    /\ opponant' = opposite(opponant)
    /\ turns' = turns + 1
    /\ IF restartDue(round)
       THEN round' = 0 /\ spc' = "cooldown"
       ELSE round' = round + 1 /\ spc' = "choices"
    /\ UNCHANGED <<sortedWords, saveVars, resolverVars, roundVars, sinkVars, bankVars, bootVars,
                   result, oldWords, matches, turnLog>>

\* line 628: await this.#p1.wait(Game.RESTART_TIMER)
cooldownOver ==
    /\ spc = "cooldown"
    /\ spc' = "startGame"
    /\ UNCHANGED <<sortedWords, saveVars, resolverVars, roundVars, sinkVars, bankVars, bootVars,
                   turn, opponant, round, result, oldWords, turns, matches, turnLog>>

\* lines 630-636: await this.#p1.startGame(), then this.#round++
startNewMatch ==
    /\ spc = "startGame"
    /\ matches' = Append(matches, turns)
    /\ round' = round + 1
    /\ spc' = "choices"
    /\ UNCHANGED <<sortedWords, saveVars, resolverVars, roundVars, sinkVars, bankVars, bootVars,
                   turn, opponant, result, oldWords, turns, turnLog>>

NextSelfPlay ==
    \/ runBegin
    \/ waitForChoicesGiven
    \/ runChooseWord
    \/ runAddWords
    \/ waitForWordPicked
    \/ endTurn
    \/ cooldownOver
    \/ startNewMatch

SpecSelfPlay == InitSelfPlay /\ [][NextSelfPlay]_vars

----------------------------------------------------------------------------
(* Claims about the self-play Game *)

CountIn(bank, w) == IF w \in DOMAIN bank THEN bank[w] ELSE 0

Range(ws) == {ws[i] : i \in DOMAIN ws}

Occurrences(ws, w) == Cardinality({i \in DOMAIN ws : ws[i] = w})

\* C13: in a turn whose chooseWord resolved, once the words are recorded
\* and until the turn ends, every word the page offered in this turn has
\* been added to the sink exactly once (once per time it is offered),
\* whichever word was picked.
C13_OfferedAddedOnce ==
    spc \in {"picked", "submit"} =>
        \A w \in Range(turnLog.offered) :
            CountIn(wordsSimple, w) =
                CountIn(turnLog.before, w) + Occurrences(turnLog.offered, w)

\* C14: drawer and guesser are the two distinct Players; Player 2 draws the
\* first turn and the roles swap with every completed turn, also across
\* the start of a new match.
C14_RolesAlternate ==
    spc \notin {"off", "begin"} =>
        /\ turn \in Players
        /\ opponant \in Players
        /\ turn # opponant
        /\ turn = IF turns % 2 = 0 THEN "p2" ELSE "p1"

C14_Witness ==
    /\ spc = "choose"
    /\ turns = ROUNDS * 2 + 1
    /\ Len(matches) = 2
    /\ turn = "p1"
    /\ opponant = "p2"

\* C15: a match is started at the beginning and after every 20th completed
\* turn, at no other time, and the round counter is within 1..20 at the
\* head of every loop iteration.
C15_RestartEveryTwentyTurns ==
    /\ \A k \in DOMAIN matches : matches[k] = (k - 1) * ROUNDS * 2
    /\ spc \in {"choices", "choose", "record", "picked", "submit", "rejected"} =>
          /\ Len(matches) = 1 + turns \div (ROUNDS * 2)
          /\ round \in 1..(ROUNDS * 2)
          /\ round = (turns % (ROUNDS * 2)) + 1
    /\ spc \in {"cooldown", "startGame"} =>
          /\ turns > 0
          /\ turns % (ROUNDS * 2) = 0
          /\ Len(matches) = turns \div (ROUNDS * 2)

C15_Witness ==
    /\ spc = "choices"
    /\ turns = ROUNDS * 4
    /\ matches = <<0, ROUNDS * 2, ROUNDS * 4>>
    /\ round = 1

----------------------------------------------------------------------------
(* Claims about the resolver: letter case and bucket selection *)

LowerCased(c) == [i \in DOMAIN c |-> toLowerCase(c[i])]

\* C16: the letter filter is case-insensitive: a clue gives the candidates
\* its lower-cased spelling gives, so a clue with an upper-case revealed
\* letter keeps the candidates that have this letter at this position.
C16_CaseInsensitive ==
    solutions = findSolutions(sortedWords, LowerCased(clue))

\* C17: the word count findSolutions looks the bucket up with is the number
\* of tokens the clue splits into on spaces and hyphens, so the fully hidden
\* clue of a word of the index finds that word.
C17_BucketByTokenCount ==
    /\ numWords(clue) = Len(TokenLens(clue))
    /\ (target # NoTarget /\ clue = Mask(target.word)) => InSeq(target, solutions)

----------------------------------------------------------------------------
(* Claims about the round wait: clue snapshots and the recorded counts *)

\* C18: findSolutions is called only at a polling tick whose clue differs
\* from the clue read at the round's previous clue poll; a poll that reads
\* the same clue again calls nothing.
C18_ResolverOnlyOnNewClue ==
    [][(IsTick /\ lastTick'.consulted) =>
          (~roundLog.polled \/ roundLog.clue # lastTick'.clue)]_vars

RoundReturns == gpc = "wait" /\ gpc' = "join"

\* C19: the correct-guess count Game.run passes to addWord is the last
\* guessed count read in the round, less one when the round started a batch.
C19_GuessCountLessOwn ==
    [][(RoundReturns /\ roundLog.observed) =>
          \E c \in BagToSet(calls') :
              /\ CopiesIn(c, calls') = CopiesIn(c, calls) + 1
              /\ c.correctGusses =
                    roundLog.guessed - (IF batchCount > 0 THEN 1 ELSE 0)]_vars

\* C20 as stated: every round that returns raises the appearance count of
\* the revealed word by one.
C20_EveryRoundMutatesSink ==
    [][RoundReturns =>
          RecordOf(words', oldWord).appearance =
              RecordOf(words, oldWord).appearance + 1]_vars

\* C20, amended: every round that returns makes one addWord call with the
\* revealed word; the word's appearance count goes up by exactly one and no
\* other word's record changes when the counts pass the guard of addWord,
\* and the sink is unchanged when they do not.
C20_RoundRecordedWhenValid ==
    [][RoundReturns =>
          LET c == Call(oldWord, playerCount, correctGuesses)
          IN  /\ calls' = calls (+) SetToBag({c})
              /\ IF Accepted(c)
                 THEN /\ RecordOf(words', oldWord).appearance =
                            RecordOf(words, oldWord).appearance + 1
                      /\ \A w \in DOMAIN words \ {oldWord} :
                            w \in DOMAIN words' /\ words'[w] = words[w]
                 ELSE words' = words]_vars

C20_Witness ==
    /\ gpc = "join"
    /\ rounds = 1
    /\ wordFile # <<>>
    /\ calls = SetToBag({Call(<<"c","a","t">>, 1, 0)})
    /\ words[<<"c","a","t">>].appearance = 2

----------------------------------------------------------------------------
(* Claims about the detached batch, the non-empty word and termination *)

\* C21: the batch is detached from the polling loop, and its submissions all
\* end within the round timeout of the round that started it: no batch is
\* started so late that its last word cannot be sent before the timeout.
C21_BatchEndsWithinTimeout ==
    \A b \in BagToSet(batches) : ~b.late

\* C25: the word of a call that returns normally is never the empty string:
\* a call that has left its loop and its nested call has a non-empty recorded
\* word, and every word passed to addWord and every key of the sink is
\* non-empty.
C25_RecordedWordNonEmpty ==
    /\ (gpc = "wait" /\ stack # <<>> /\ Top(stack).pc = "tail") => oldWord # <<>>
    /\ \A c \in BagToSet(calls) : c.word # <<>>
    /\ <<>> \notin DOMAIN words

C25_Witness ==
    /\ gpc = "join"
    /\ wordFile = <<>>
    /\ BagCardinality(calls) = 1
    /\ oldWord = <<"c","a","t">>
    /\ oldWord \in DOMAIN words

LoopLimit == (timeout \div POLL) + 1

\* C26: every call of waitForRoundFinished ends, by returning or throwing:
\* no polling loop makes more than timeout/500 + 1 passes, the call nests at
\* most one level deep, and a round that waits stops waiting.
C26_WaitTerminates ==
    /\ [](/\ Len(stack) <= 2
          /\ \A i \in DOMAIN stack : stack[i].timer <= LoopLimit * POLL)
    /\ (gpc = "wait") ~> (gpc # "wait")

C26_Witness ==
    /\ gpc = "wait"
    /\ Len(stack) = 2
    /\ Top(stack).timer = LoopLimit * POLL

----------------------------------------------------------------------------
(* Claims about the periodic flush and the growth of the sink *)

\* a step of the flush: the timer fires or a write ends
IsFlushStep == writes' # writes

\* C22: the flush fires on its own timer whatever the sessions are doing,
\* no step of it changes a session, the bootstrap or the sink, a failed
\* write included, and after a failed write the timer fires again.
C22_FlushNeverBlocks ==
    /\ [](Len(writes) < MaxWrites => ENABLED save)
    /\ [][IsFlushStep =>
             UNCHANGED <<words, wordsSimple, calls, simpleCalls, games, boot,
                         orphans, unhandled, failures>>]_vars

C22_Witness ==
    /\ saveErrors = 1
    /\ writes # <<>>
    /\ disk # bankWords
    /\ bankWords # <<>>
    /\ \E i \in 1..NumGames : games[i].pc = "run"

Grows(old, new) ==
    \A w \in DOMAIN old :
        /\ w \in DOMAIN new
        /\ new[w].appearance >= old[w].appearance
        /\ new[w].playersEncounterd >= old[w].playersEncounterd
        /\ new[w].correctGusses >= old[w].correctGusses

GrowsSimple(old, new) ==
    \A w \in DOMAIN old : w \in DOMAIN new /\ new[w] >= old[w]

\* C23: within one run of the process the sink only grows: no step, be it
\* an addWord call, a flush, a failure of a session or a restart, removes a
\* key or lowers a counter.
C23_SinkOnlyGrows ==
    [][Grows(words, words') /\ GrowsSimple(wordsSimple, wordsSimple')]_vars

C23_Witness ==
    /\ variant = "spectator"
    /\ wordFile # <<>>
    /\ \E i \in 1..NumGames : games[i].gen = 2 /\ games[i].pc = "run"
    /\ calls # EmptyBag
    /\ words # wordFile
    /\ disk = words
    /\ saveErrors = 1

----------------------------------------------------------------------------
(* Claim about the self-play chooseWord *)

\* C24: when chooseWord of the drawer, who is in the room, has resolved,
\* the chosen word is one of the words the page offers in this turn and the
\* returned set is exactly those words, however many are offered; for an
\* actor who is not in the room it resolves with an empty pick and an empty
\* set.
C24_ChoiceAmongOffered ==
    /\ spc = "record" =>
          /\ result[1] \in Range(turnLog.offered)
          /\ result[2] = turnLog.offered
    /\ spc \in {"choose", "record"} =>
          \A c \in Choices :
              chooseWord(FALSE, oldWords[turn], turnLog.offered, c) = << <<>>, <<>> >>

====
